---- MODULE Spec2Model ----
(***************************************************************************)
(* The operation catalog and correlation layer of rocketchat_async         *)
(* (rocketchat_async/methods.py): the correlation id allocator, the nine   *)
(* operations' message builders, `call` coroutines, reply parsers and      *)
(* subscription adapters, run against the Dispatcher they are handed.      *)
(***************************************************************************)
EXTENDS Integers, Sequences, FiniteSets, TLC

\* ---------------------------------------------------------------- bounds
\* Calls begun over a run; each hands exactly one message to the Dispatcher.
MaxSent == 3
\* Push events the Dispatcher receives over a run.
MaxRecv == 1
\* Push events received by a session that only receives (SpecPush).
MaxPush == 3
\* Allocations over a run of the allocator taken alone (SpecAlloc).
MaxAlloc == 11
\* Threads and allocations per thread of the allocator under preemption.
NumThreads == 2
MaxPerThread == 2

\* The coroutines that issue calls concurrently.
Callers == {"c1", "c2"}
Threads == 1..NumThreads

\* Python's None.
None == "None"

VARIABLES
  max_id,    \* RealtimeRequest._max_id
  issued,    \* the values _get_new_id has returned, in order
  pc,        \* per caller: "idle", "called", "done", "error"
  op,        \* per caller: the operation class whose call() it runs
  call_args, \* per caller: the arguments of the call() it is inside
  msg_id,    \* per caller: call()'s local msg_id (None where it has none)
  wait_id,   \* per caller: the id it passed to call_method (None where none)
  ret,       \* per caller: what call() returned
  sent,      \* the Dispatcher primitives invoked, in order: per invocation
             \* the primitive, the message's tag and id field, the id passed
  last,      \* the latest invocation in full: [by, prim, msg, id]
  pending,   \* Dispatcher: id -> method name of an unresolved pending call
  resolved,  \* Dispatcher: id -> raw response of a resolved call
  subs,      \* Dispatcher: subscription id -> registered adapter
  recv,      \* Dispatcher: inbound frames received, in order
  cb_log,    \* the invocations of the callers' callbacks, in order
  tpc,       \* per thread: its position inside _get_new_id
  treg,      \* per thread: the counter value it loaded
  tcount     \* per thread: allocations it has completed

vars == <<max_id, issued, pc, op, call_args, msg_id, wait_id, ret, sent, last, pending,
          resolved, subs, recv, cb_log, tpc, treg, tcount>>

callVars == <<pc, op, call_args, msg_id, wait_id, ret, sent, last, pending, resolved,
              subs, recv, cb_log>>
threadVars == <<tpc, treg, tcount>>

\* ------------------------------------------------------- id allocator
Digit == <<"0", "1", "2", "3", "4", "5", "6", "7", "8", "9">>

\* f'{n}' of a non-negative int: its decimal digits, most significant first.
RECURSIVE IntToStr(_)
IntToStr(n) == IF n < 10 THEN Digit[n + 1]
               ELSE IntToStr(n \div 10) \o Digit[(n % 10) + 1]

\* Faulty variant: the sum is computed and not stored back.
IncrementDropped(n) == n

\* RealtimeRequest._max_id += 1
Incremented(n) == n + 1

\* Faulty variant: the id is formatted from the counter before the increment.
NewIdStale(n) == IntToStr(n)

\* return f'{RealtimeRequest._max_id}', evaluated after the increment.
NewIdOf(n) == IntToStr(Incremented(n))

\* ------------------------------------------------------ caller inputs
\* Login's args: a resume token alone, or (username, password).
LoginArgs == {<<"tok1">>, <<"alice", "pw1">>}
\* SendMessage's extra fields (**kwargs); the second collides with base keys
\* of the parameter object and with keys of the envelope.
NoKwargs == [k \in {} |-> "x"]
KwargsSet == {NoKwargs, [msg |-> "bye", id |-> "99"]}
\* time.time() as SendMessage formats it into the id seed.
Times == {"1700000000.5"}

\* The wider ranges of arguments, for a caller taken alone (SpecOne): a
\* user named like a password and a token spelled like one; extra fields
\* named like the base fields and like the envelope's keys; three clock
\* readings.
\* A message id of the caller's own choosing, as its characters.
Mine == <<"m", "i", "n", "e">>
AnyLoginArgs ==
  {<<"tok1">>, <<"pw1">>, <<"alice", "pw1">>, <<"alice", "pw2">>,
   <<"pw1", "pw1">>, <<"pw2", "pw1">>}
AnyKwargs ==
  {NoKwargs,
   [msg |-> "bye", id |-> "99"],
   [id |-> "99", msg |-> "connect", method |-> "login"],
   ("_id" :> Mine) @@ [rid |-> "r9"],
   ("_id" :> Mine) @@ [rid |-> "r9", msg |-> "bye", tmid |-> "t1"],
   [tmid |-> "t1", attachments |-> <<"file1">>]}
AnyTimes == Times \cup {"1700000001.050049", "1700000004.1990628"}
Channels == {"r1"}
Texts == {"hi"}
Emojis == {":+1:"}
OrigMsgIds == {"m7"}
Usernames == {"alice"}
UserIds == {"u1"}
\* The callback function each caller passes when it subscribes.
CallbackOf(c) == "cb_" \o c

\* hashlib.sha256(p.encode()).hexdigest() on the passwords drawn.
Sha256Hex(p) ==
  CASE p = "pw1" ->
         "c592df4a86933b92addc9842402ddf198c638ea9be58916ee6e3734e1e3152f8"
    [] p = "pw2" ->
         "93915a0a4bf8f634cb1856494dd4304472ad46b9827f541f76b6761c49cc55b0"

\* The sixteen hexadecimal digits.
HexDigits == {"0", "1", "2", "3", "4", "5", "6", "7", "8", "9",
              "a", "b", "c", "d", "e", "f"}

\* hashlib.md5(seed.encode()).hexdigest() on the seeds that can occur, as
\* the sequence of its 32 characters.
Md5Hex(seed) ==
  CASE seed = "0:1700000000.5" ->
         <<"f", "7", "b", "b", "e", "f", "c", "e", "2", "6", "3", "0", "7", "c", "d", "e",
           "f", "6", "6", "1", "5", "1", "7", "0", "5", "3", "d", "e", "3", "f", "c", "0">>
    [] seed = "0:1700000001.050049" ->
         <<"5", "6", "9", "f", "2", "c", "3", "e", "4", "a", "c", "4", "6", "b", "6", "c",
           "5", "d", "5", "8", "e", "5", "2", "3", "0", "c", "a", "0", "c", "9", "e", "f">>
    [] seed = "0:1700000004.1990628" ->
         <<"4", "9", "8", "e", "9", "0", "e", "a", "0", "f", "f", "0", "c", "0", "1", "2",
           "6", "8", "9", "0", "b", "7", "d", "1", "2", "9", "1", "2", "0", "e", "6", "b">>
    [] seed = "1:1700000000.5" ->
         <<"7", "1", "9", "b", "7", "e", "0", "0", "7", "f", "6", "b", "7", "f", "8", "a",
           "3", "8", "f", "8", "8", "0", "2", "e", "8", "1", "e", "3", "0", "7", "a", "f">>
    [] seed = "1:1700000001.050049" ->
         <<"6", "e", "2", "6", "3", "7", "c", "0", "b", "3", "c", "d", "2", "0", "8", "c",
           "6", "e", "2", "e", "8", "3", "e", "2", "e", "9", "8", "9", "e", "8", "4", "9">>
    [] seed = "1:1700000004.1990628" ->
         <<"6", "e", "2", "6", "3", "7", "c", "0", "b", "3", "c", "d", "b", "9", "9", "1",
           "5", "b", "0", "4", "9", "2", "8", "4", "e", "b", "9", "1", "b", "f", "4", "c">>
    [] seed = "2:1700000000.5" ->
         <<"8", "e", "1", "2", "9", "9", "2", "5", "0", "c", "1", "d", "f", "1", "1", "5",
           "5", "a", "8", "1", "6", "9", "b", "f", "4", "7", "4", "5", "4", "8", "d", "7">>
    [] seed = "2:1700000001.050049" ->
         <<"e", "0", "4", "0", "5", "5", "1", "a", "1", "8", "6", "c", "5", "d", "3", "4",
           "d", "7", "a", "5", "b", "9", "e", "5", "2", "a", "c", "f", "a", "8", "8", "7">>
    [] seed = "2:1700000004.1990628" ->
         <<"4", "7", "4", "c", "b", "4", "7", "d", "1", "f", "d", "b", "6", "6", "6", "b",
           "c", "a", "5", "9", "2", "e", "7", "e", "c", "b", "c", "6", "c", "e", "d", "2">>
    [] seed = "3:1700000000.5" ->
         <<"f", "8", "1", "d", "6", "c", "6", "a", "8", "d", "8", "2", "8", "1", "a", "2",
           "6", "c", "5", "8", "2", "d", "2", "f", "0", "5", "2", "6", "9", "2", "c", "5">>
    [] seed = "3:1700000001.050049" ->
         <<"3", "0", "c", "e", "d", "2", "3", "2", "3", "4", "1", "0", "5", "4", "c", "0",
           "1", "f", "2", "2", "8", "f", "9", "c", "d", "e", "f", "3", "3", "8", "8", "b">>
    [] seed = "3:1700000004.1990628" ->
         <<"0", "0", "7", "b", "1", "b", "6", "3", "7", "4", "8", "d", "c", "2", "b", "8",
           "e", "b", "4", "c", "4", "4", "d", "a", "3", "5", "1", "7", "4", "d", "9", "6">>
    [] seed = "4:1700000000.5" ->
         <<"2", "2", "9", "7", "b", "f", "1", "2", "7", "7", "b", "9", "a", "2", "b", "3",
           "f", "6", "d", "a", "8", "1", "a", "8", "2", "c", "c", "c", "0", "f", "1", "a">>
    [] seed = "4:1700000001.050049" ->
         <<"f", "e", "b", "1", "2", "d", "7", "9", "e", "a", "a", "b", "7", "c", "d", "c",
           "0", "a", "6", "d", "d", "0", "b", "6", "b", "8", "6", "e", "0", "c", "3", "b">>
    [] seed = "4:1700000004.1990628" ->
         <<"6", "e", "b", "9", "7", "b", "6", "b", "c", "e", "f", "5", "6", "e", "d", "6",
           "9", "c", "5", "2", "e", "1", "f", "b", "c", "2", "4", "f", "4", "9", "b", "d">>
    [] seed = "5:1700000000.5" ->
         <<"e", "7", "a", "c", "e", "f", "0", "a", "b", "5", "5", "1", "6", "d", "7", "8",
           "b", "b", "8", "4", "f", "4", "4", "0", "4", "a", "9", "5", "b", "4", "1", "9">>
    [] seed = "5:1700000001.050049" ->
         <<"1", "b", "1", "2", "d", "3", "1", "1", "4", "6", "9", "e", "b", "f", "7", "6",
           "9", "c", "b", "2", "4", "6", "d", "1", "c", "1", "9", "4", "6", "7", "a", "6">>
    [] seed = "5:1700000004.1990628" ->
         <<"b", "b", "7", "3", "7", "f", "6", "8", "9", "d", "1", "1", "8", "5", "d", "9",
           "0", "6", "f", "c", "f", "c", "b", "e", "4", "e", "e", "2", "8", "3", "a", "d">>

\* A slice that keeps the digest's first 16 characters.
Md5Hex16(seed) == SubSeq(Md5Hex(seed), 1, 16)

\* hashlib.md5(id_seed.encode()).hexdigest()[:12]
Md5Hex12(seed) == SubSeq(Md5Hex(seed), 1, 12)

\* ---------------------------------------------------- message builders
\* Faulty variant: the handshake offers a second protocol version.
REQUEST_MSG_PRE1 ==
  [msg |-> "connect", version |-> "1", support |-> <<"1", "pre1">>]

\* Connect.REQUEST_MSG
REQUEST_MSG == [msg |-> "connect", version |-> "1", support |-> <<"1">>]

\* Login parameters that carry the password as it was given.
LoginParamsPlain(args) ==
  IF Len(args) = 1
  THEN <<[resume |-> args[1]]>>
  ELSE <<[user |-> [username |-> args[1]],
          password |-> [digest |-> args[2], algorithm |-> "sha-256"]]>>

\* Login._get_request_msg(msg_id, args)
LoginParams(args) ==
  IF Len(args) = 1
  THEN <<[resume |-> args[1]]>>
  ELSE <<[user |-> [username |-> args[1]],
          password |-> [digest |-> Sha256Hex(args[2]),
                        algorithm |-> "sha-256"]]>>

LoginMsg(id, args) ==
  [msg |-> "method", method |-> "login", id |-> id, params |-> LoginParams(args)]

\* GetChannels._get_request_msg(msg_id)
GetChannelsMsg(id) ==
  [msg |-> "method", method |-> "rooms/get", id |-> id, params |-> <<>>]

\* SendMessage._get_request_msg: id_seed = f'{msg_id}:{time.time()}'
IdSeed(id, now) == id \o ":" \o now

\* A merge in which the base fields win over extra fields of their name.
MergeBaseWins(base, kwargs) == base @@ kwargs

\* for key, value in kwargs.items(): msg["params"][0][key] = value
MergeKwargs(base, kwargs) == kwargs @@ base

SendMessageParam(id, channel_id, msg_text, kwargs, now) ==
  MergeKwargs(("_id" :> Md5Hex12(IdSeed(id, now)))
                @@ [rid |-> channel_id, msg |-> msg_text],
              kwargs)

\* A SendMessage message whose extra fields are merged into the envelope
\* as well as into the parameter object.
SendMessageMsgFlat(id, channel_id, msg_text, kwargs, now) ==
  kwargs @@
  [msg |-> "method", method |-> "sendMessage", id |-> id,
   params |-> <<SendMessageParam(id, channel_id, msg_text, kwargs, now)>>]

SendMessageMsg(id, channel_id, msg_text, kwargs, now) ==
  [msg |-> "method", method |-> "sendMessage", id |-> id,
   params |-> <<SendMessageParam(id, channel_id, msg_text, kwargs, now)>>]

\* SendReaction._get_request_msg(msg_id, orig_msg_id, emoji)
SendReactionMsg(id, orig_msg_id, emoji) ==
  [msg |-> "method", method |-> "setReaction", id |-> id,
   params |-> <<emoji, orig_msg_id>>]

\* SendTypingEvent._get_request_msg(msg_id, channel_id, username, is_typing)
SendTypingEventMsg(id, channel_id, username, is_typing) ==
  [msg |-> "method", method |-> "stream-notify-room", id |-> id,
   params |-> <<channel_id \o "/typing", username, is_typing>>]

\* SubscribeToChannelMessages._get_request_msg(msg_id, channel_id)
SubMessagesMsg(id, channel_id) ==
  [msg |-> "sub", id |-> id, name |-> "stream-room-messages",
   params |-> <<channel_id, [useCollection |-> FALSE, args |-> <<>>]>>]

\* SubscribeToChannelChanges._get_request_msg(msg_id, user_id)
SubChangesMsg(id, user_id) ==
  [msg |-> "sub", id |-> id, name |-> "stream-notify-user",
   params |-> <<user_id \o "/rooms-changed", FALSE>>]

\* Faulty variant: the unsub repeats the subscription's stream name.
UnsubscribeMsgNamed(subscription_id) ==
  [msg |-> "unsub", id |-> subscription_id, name |-> "stream-room-messages"]

\* Unsubscribe._get_request_msg(subscription_id)
UnsubscribeMsg(subscription_id) == [msg |-> "unsub", id |-> subscription_id]

\* ------------------------------------- what each call() hands over
\* The second argument of dispatcher.call_method in each call(): the
\* correlation id where the call passes one, None where it passes none.
\* Faulty variants: a call that should pass its id passes none, and a call
\* that should pass none passes its id.
LoginHandsNoId(id) == None
TypingHandsNoId(id) == None
ReactionHandsId(id) == id

ConnectHandedId == None
LoginHandedId(id) == id
GetChannelsHandedId(id) == id
SendMessageHandedId(id) == id
SendReactionHandedId(id) == None
SendTypingEventHandedId(id) == id
UnsubscribeHandedId(subscription_id) == None

\* Faulty variants: a subscribing call that returns nothing.
SubMessagesReturnsNothing(id) == None
SubChangesReturnsNothing(id) == None

\* The id each subscribing call() registers its adapter under, and the
\* value it returns.
SubMessagesRegisteredId(id) == id
SubMessagesReturn(id) == id
SubChangesRegisteredId(id) == id
SubChangesReturn(id) == id

\* ----------------------------------------------------------- parsers
Has(r, f) == f \in DOMAIN r

\* Login._parse(response): response['result']['id']; an absent field raises.
LoginParseOk(response) == Has(response, "result") /\ Has(response.result, "id")
LoginParse(response) == response.result.id

\* A parse that lists the rooms last to first.
GetChannelsParseReversed(response) ==
  [i \in 1..Len(response.result) |->
     <<response.result[Len(response.result) + 1 - i]["_id"],
       response.result[Len(response.result) + 1 - i].t>>]

\* GetChannels._parse(response): [(r['_id'], r['t']) for r in response['result']]
GetChannelsParse(response) ==
  [i \in 1..Len(response.result) |->
     <<response.result[i]["_id"], response.result[i].t>>]

\* --------------------------------------------- subscription adapters
\* A messages adapter that passes no sender when the message names none.
MessagesAdapterLenient(callback, msg) ==
  IF /\ Has(msg, "fields") /\ Has(msg.fields, "args")
     /\ Len(msg.fields.args) >= 1
     /\ Has(msg.fields.args[1], "_id") /\ Has(msg.fields.args[1], "rid")
  THEN LET message == msg.fields.args[1]
           sender == IF Has(message, "u") /\ Has(message.u, "_id")
                     THEN message.u["_id"] ELSE None
       IN [outcome |-> "called", cb |-> callback,
           args |-> <<message.rid, sender, message["_id"], message>>]
  ELSE [outcome |-> "error"]

\* A messages adapter that passes the sender before the channel.
MessagesAdapterSenderFirst(callback, msg) ==
  IF /\ Has(msg, "fields") /\ Has(msg.fields, "args")
     /\ Len(msg.fields.args) >= 1
     /\ Has(msg.fields.args[1], "_id") /\ Has(msg.fields.args[1], "rid")
     /\ Has(msg.fields.args[1], "u") /\ Has(msg.fields.args[1].u, "_id")
  THEN LET message == msg.fields.args[1]
       IN [outcome |-> "called", cb |-> callback,
           args |-> <<message.u["_id"], message.rid, message["_id"], message>>]
  ELSE [outcome |-> "error"]

\* SubscribeToChannelMessages._wrap(callback)(msg): the callback invocation
\* it makes, or the access error it ends in.
MessagesAdapter(callback, msg) ==
  IF /\ Has(msg, "fields") /\ Has(msg.fields, "args")
     /\ Len(msg.fields.args) >= 1
     /\ Has(msg.fields.args[1], "_id") /\ Has(msg.fields.args[1], "rid")
     /\ Has(msg.fields.args[1], "u") /\ Has(msg.fields.args[1].u, "_id")
  THEN LET message == msg.fields.args[1]
       IN [outcome |-> "called", cb |-> callback,
           args |-> <<message.rid, message.u["_id"], message["_id"], message>>]
  ELSE [outcome |-> "error"]

\* A changes adapter that extracts the channel's fields before it looks at
\* the kind of change.
ChangesAdapterReadsFirst(callback, msg) ==
  IF ~(/\ Has(msg, "fields") /\ Has(msg.fields, "args")
       /\ Len(msg.fields.args) >= 2
       /\ Has(msg.fields.args[2], "_id") /\ Has(msg.fields.args[2], "t"))
  THEN [outcome |-> "error"]
  ELSE IF msg.fields.args[1] = "removed"
       THEN [outcome |-> "swallowed"]
       ELSE [outcome |-> "called", cb |-> callback,
             args |-> <<msg.fields.args[2]["_id"], msg.fields.args[2].t>>]

\* SubscribeToChannelChanges._wrap(callback)(msg)
ChangesAdapter(callback, msg) ==
  IF ~(Has(msg, "fields") /\ Has(msg.fields, "args")
       /\ Len(msg.fields.args) >= 1)
  THEN [outcome |-> "error"]
  ELSE LET payload == msg.fields.args
       IN IF payload[1] = "removed"
          THEN [outcome |-> "swallowed"]
          ELSE IF /\ Len(payload) >= 2
                  /\ Has(payload[2], "_id") /\ Has(payload[2], "t")
               THEN [outcome |-> "called", cb |-> callback,
                     args |-> <<payload[2]["_id"], payload[2].t>>]
               ELSE [outcome |-> "error"]

RunAdapter(adapter, msg) ==
  IF adapter.kind = "messages"
  THEN MessagesAdapter(adapter.cb, msg)
  ELSE ChangesAdapter(adapter.cb, msg)

\* ------------------------------------------- the server's frames
\* Raw replies the server may send to a method call of each name.
RepliesTo(method) ==
  CASE method = "login" ->
         {[result |-> [id |-> "uidA"]], [result |-> [id |-> "uidB"]],
          [error |-> "denied"], [result |-> [token |-> "tokA"]]}
    [] method = "rooms/get" ->
         {[result |-> <<>>],
          [result |-> <<("_id" :> "a") @@ [t |-> "c"],
                        ("_id" :> "b") @@ [t |-> "p"]>>]}
    [] OTHER -> {[result |-> "ok"]}

\* The wider range of replies: room lists of up to three rooms, with a room
\* listed twice, rooms in either order and a room with further fields.
RoomA == ("_id" :> "a") @@ [t |-> "c"]
RoomB == ("_id" :> "b") @@ [t |-> "p"]
RoomC == ("_id" :> "c") @@ [t |-> "d", name |-> "general"]
AnyRepliesTo(method) ==
  IF method = "rooms/get"
  THEN {[result |-> rooms] :
          rooms \in {<<>>, <<RoomA>>, <<RoomC>>, <<RoomA, RoomB>>, <<RoomB, RoomA>>,
                     <<RoomA, RoomA>>, <<RoomA, RoomB, RoomC>>,
                     <<RoomC, RoomB, RoomA>>, <<RoomB, RoomC, RoomB>>}}
  ELSE RepliesTo(method)

\* Raw push events the server may send on a subscription of each kind.
GoodMessage == ("_id" :> "m1") @@ [rid |-> "r1", u |-> ("_id" :> "u1")]
EventsOn(kind) ==
  IF kind = "messages"
  THEN {[fields |-> [args |-> <<GoodMessage>>]],
        [fields |-> [args |-> <<("_id" :> "m2") @@ [rid |-> "r1"]>>]]}
  ELSE {[fields |-> [args |-> <<"removed", ("_id" :> "x")>>]],
        [fields |-> [args |-> <<"inserted", ("_id" :> "x") @@ [t |-> "p"]>>]],
        [fields |-> [args |-> <<"updated", ("_id" :> "y")>>]]}

\* Push frames of every shape the adapters can meet: the frames above, more
\* well-formed ones, and frames that lack one of the fields an adapter reads.
OtherMessage ==
  ("_id" :> "m3") @@ [rid |-> "r2", u |-> ("_id" :> "u2") @@ [username |-> "bob"],
                      msg |-> "hello"]
AnyEventsOn(kind) ==
  IF kind = "messages"
  THEN EventsOn("messages") \cup
       {[fields |-> [args |-> <<OtherMessage>>]],
        [collection |-> "stream-room-messages"],
        [fields |-> [eventName |-> "r1"]],
        [fields |-> [args |-> <<>>]],
        [fields |-> [args |-> <<[rid |-> "r1", u |-> ("_id" :> "u1")]>>]],
        [fields |-> [args |-> <<("_id" :> "m4") @@ [u |-> ("_id" :> "u1")]>>]],
        [fields |-> [args |-> <<("_id" :> "m5") @@
                                  [rid |-> "r1", u |-> [username |-> "bob"]]>>]]}
  ELSE EventsOn("changes") \cup
       {[fields |-> [args |-> <<"removed">>]],
        [fields |-> [args |-> <<"updated", ("_id" :> "y") @@ [t |-> "c"]>>]],
        [collection |-> "stream-notify-user"],
        [fields |-> [args |-> <<>>]],
        [fields |-> [args |-> <<"inserted">>]],
        [fields |-> [args |-> <<"inserted", [t |-> "c"]>>]]}

\* ------------------------------------------------------- Dispatcher
Without(f, k) == [x \in (DOMAIN f) \ {k} |-> f[x]]

\* The id field of an outgoing message, None where it has none.
IdField(msg) == IF Has(msg, "id") THEN msg.id ELSE None

\* call_method(msg, msg_id=None) called by coroutine c: with an id, a
\* pending call is recorded under it before the message is sent and the
\* caller waits for its reply; without one the message is only sent.  An
\* unsub retires the subscription whose id it carries.
CallMethod(c, msg, id) ==
  /\ sent' = Append(sent, [prim |-> "call_method", tag |-> msg.msg,
                        mid |-> IdField(msg), id |-> id])
  /\ last' = [by |-> c, prim |-> "call_method", msg |-> msg, id |-> id]
  /\ pending' = IF id = None THEN pending ELSE (id :> msg.method) @@ pending
  /\ resolved' = IF id = None THEN resolved ELSE Without(resolved, id)
  /\ subs' = IF msg.msg = "unsub" THEN Without(subs, msg.id) ELSE subs

\* create_subscription(msg, msg_id, callback) called by coroutine c: the
\* adapter is registered under msg_id and the message is sent; nothing is
\* waited for.
CreateSubscription(c, msg, id, adapter) ==
  /\ sent' = Append(sent, [prim |-> "create_subscription", tag |-> msg.msg,
                        mid |-> IdField(msg), id |-> id])
  /\ last' = [by |-> c, prim |-> "create_subscription", msg |-> msg, id |-> id]
  /\ subs' = (id :> adapter) @@ subs
  /\ UNCHANGED <<pending, resolved>>

\* Receive path, a reply frame: the pending call with its id is resolved.
Resolve(id, response) ==
  /\ id \in DOMAIN pending
  /\ pending' = Without(pending, id)
  /\ resolved' = (id :> response) @@ resolved
  /\ UNCHANGED <<max_id, issued, pc, op, call_args, msg_id, wait_id, ret, sent, last,
                 subs, recv, cb_log, threadVars>>

ReplyArrives(id, response) ==
  /\ id \in DOMAIN pending
  /\ response \in RepliesTo(pending[id])
  /\ Resolve(id, response)

\* A reply frame out of the wider range of replies.
ReplyOfAnyShape(id, response) ==
  /\ id \in DOMAIN pending
  /\ response \in AnyRepliesTo(pending[id])
  /\ Resolve(id, response)

\* Receive path, a push frame: the adapter registered under its id runs; an
\* access error it ends in is logged with the frame and no callback runs.
Deliver(id, event) ==
  /\ id \in DOMAIN subs
  /\ LET r == RunAdapter(subs[id], event)
     IN /\ recv' = Append(recv, [id |-> id, event |-> event,
                                 outcome |-> r.outcome])
        /\ cb_log' = IF r.outcome = "called"
                     THEN Append(cb_log, [cb |-> r.cb, args |-> r.args])
                     ELSE cb_log
  /\ UNCHANGED <<max_id, issued, pc, op, call_args, msg_id, wait_id, ret, sent, last,
                 pending, resolved, subs, threadVars>>

PushArrives(id, event) ==
  /\ Len(recv) < MaxRecv
  /\ id \in DOMAIN subs
  /\ event \in EventsOn(subs[id].kind)
  /\ Deliver(id, event)

\* A push frame of any shape, in a session that receives up to MaxPush.
PushOfAnyShape(id, event) ==
  /\ Len(recv) < MaxPush
  /\ id \in DOMAIN subs
  /\ event \in AnyEventsOn(subs[id].kind)
  /\ Deliver(id, event)

\* ------------------------------------------------- the call() coroutines
CanStart(c) == pc[c] \in {"idle", "done", "error"} /\ Len(sent) < MaxSent

\* A call()'s first uninterrupted stretch: it runs to its first await.
Begin(c, name, a, id, handed) ==
  /\ pc' = [pc EXCEPT ![c] = "called"]
  /\ op' = [op EXCEPT ![c] = name]
  /\ call_args' = [call_args EXCEPT ![c] = a]
  /\ msg_id' = [msg_id EXCEPT ![c] = id]
  /\ wait_id' = [wait_id EXCEPT ![c] = handed]
  /\ ret' = [ret EXCEPT ![c] = None]
  /\ UNCHANGED <<recv, cb_log, threadVars>>

\* msg_id = cls._get_new_id()
GetNewId(id) ==
  /\ max_id' = Incremented(max_id)
  /\ issued' = Append(issued, id)

NoNewId == UNCHANGED <<max_id, issued>>

ConnectCall(c) ==
  /\ CanStart(c)
  /\ NoNewId
  /\ CallMethod(c, REQUEST_MSG, ConnectHandedId)
  /\ Begin(c, "Connect", <<>>, None, ConnectHandedId)

LoginCall(c, a) ==
  /\ CanStart(c)
  /\ LET id == NewIdOf(max_id)
     IN /\ GetNewId(id)
        /\ CallMethod(c, LoginMsg(id, a), LoginHandedId(id))
        /\ Begin(c, "Login", a, id, LoginHandedId(id))

GetChannelsCall(c) ==
  /\ CanStart(c)
  /\ LET id == NewIdOf(max_id)
     IN /\ GetNewId(id)
        /\ CallMethod(c, GetChannelsMsg(id), GetChannelsHandedId(id))
        /\ Begin(c, "GetChannels", <<>>, id, GetChannelsHandedId(id))

\* A SendMessage that is suspended once it has its id, before it has handed
\* anything to the Dispatcher.
SendMessageCallSuspended(c, msg_text, channel_id, kwargs, now) ==
  /\ CanStart(c)
  /\ Len(issued) < MaxSent
  /\ GetNewId(NewIdOf(max_id))
  /\ Begin(c, "SendMessage", <<msg_text, channel_id, kwargs, now>>,
           NewIdOf(max_id), None)
  /\ UNCHANGED <<sent, last, pending, resolved, subs>>

SendMessageCall(c, msg_text, channel_id, kwargs, now) ==
  /\ CanStart(c)
  /\ LET id == NewIdOf(max_id)
     IN /\ GetNewId(id)
        /\ CallMethod(c, SendMessageMsg(id, channel_id, msg_text, kwargs, now),
                      SendMessageHandedId(id))
        /\ Begin(c, "SendMessage", <<msg_text, channel_id, kwargs, now>>,
                 id, SendMessageHandedId(id))

SendReactionCall(c, orig_msg_id, emoji) ==
  /\ CanStart(c)
  /\ LET id == NewIdOf(max_id)
     IN /\ GetNewId(id)
        /\ CallMethod(c, SendReactionMsg(id, orig_msg_id, emoji),
                      SendReactionHandedId(id))
        /\ Begin(c, "SendReaction", <<orig_msg_id, emoji>>,
                 id, SendReactionHandedId(id))

SendTypingEventCall(c, channel_id, username, is_typing) ==
  /\ CanStart(c)
  /\ LET id == NewIdOf(max_id)
     IN /\ GetNewId(id)
        /\ CallMethod(c, SendTypingEventMsg(id, channel_id, username, is_typing),
                      SendTypingEventHandedId(id))
        /\ Begin(c, "SendTypingEvent", <<channel_id, username, is_typing>>,
                 id, SendTypingEventHandedId(id))

SubMessagesCall(c, channel_id, callback) ==
  /\ CanStart(c)
  /\ LET id == NewIdOf(max_id)
     IN /\ GetNewId(id)
        /\ CreateSubscription(c, SubMessagesMsg(id, channel_id),
                              SubMessagesRegisteredId(id),
                              [kind |-> "messages", cb |-> callback])
        /\ Begin(c, "SubscribeToChannelMessages", <<channel_id, callback>>,
                 id, None)

SubChangesCall(c, user_id, callback) ==
  /\ CanStart(c)
  /\ LET id == NewIdOf(max_id)
     IN /\ GetNewId(id)
        /\ CreateSubscription(c, SubChangesMsg(id, user_id),
                              SubChangesRegisteredId(id),
                              [kind |-> "changes", cb |-> callback])
        /\ Begin(c, "SubscribeToChannelChanges", <<user_id, callback>>, id, None)

\* Subscription ids the callers hold: the values subscribing calls returned.
SubOps == {"SubscribeToChannelMessages", "SubscribeToChannelChanges"}
HeldSubIds == {ret[d] : d \in {e \in Callers : pc[e] = "done" /\ op[e] \in SubOps}}

UnsubscribeCall(c, subscription_id) ==
  /\ CanStart(c)
  /\ subscription_id \in HeldSubIds
  /\ NoNewId
  /\ CallMethod(c, UnsubscribeMsg(subscription_id),
                UnsubscribeHandedId(subscription_id))
  /\ Begin(c, "Unsubscribe", <<subscription_id>>,
           None, UnsubscribeHandedId(subscription_id))

\* The rest of a call() once its await is over: parse and return.
Waited(c) == wait_id[c] # None
Response(c) == resolved[wait_id[c]]

ReturnFails(c) ==
  CASE op[c] = "Login" -> ~(Waited(c) /\ LoginParseOk(Response(c)))
    [] op[c] = "GetChannels" -> ~(Waited(c) /\ Has(Response(c), "result"))
    [] OTHER -> FALSE

ReturnValue(c) ==
  CASE op[c] = "Login" -> LoginParse(Response(c))
    [] op[c] = "GetChannels" -> GetChannelsParse(Response(c))
    [] op[c] = "SubscribeToChannelMessages" -> SubMessagesReturn(msg_id[c])
    [] op[c] = "SubscribeToChannelChanges" -> SubChangesReturn(msg_id[c])
    [] OTHER -> None

\* A return that sends a failed Login's message once more, while the run
\* has room for another message, instead of failing.
ReturnRetries(c) ==
  /\ pc[c] = "called"
  /\ Waited(c) => wait_id[c] \in DOMAIN resolved
  /\ IF op[c] = "Login" /\ ReturnFails(c) /\ Len(sent) < MaxSent
     THEN /\ CallMethod(c, LoginMsg(msg_id[c], call_args[c]), msg_id[c])
          /\ UNCHANGED <<max_id, issued, pc, op, call_args, msg_id, wait_id, ret,
                         recv, cb_log, threadVars>>
     ELSE /\ IF ReturnFails(c)
             THEN /\ pc' = [pc EXCEPT ![c] = "error"]
                  /\ ret' = [ret EXCEPT ![c] = "AccessError"]
             ELSE /\ pc' = [pc EXCEPT ![c] = "done"]
                  /\ ret' = [ret EXCEPT ![c] = ReturnValue(c)]
          /\ resolved' = IF Waited(c) THEN Without(resolved, wait_id[c]) ELSE resolved
          /\ call_args' = [call_args EXCEPT ![c] = None]
          /\ UNCHANGED <<max_id, issued, op, msg_id, wait_id, sent, last, pending,
                         subs, recv, cb_log, threadVars>>

Return(c) ==
  /\ pc[c] = "called"
  /\ Waited(c) => wait_id[c] \in DOMAIN resolved
  /\ IF ReturnFails(c)
     THEN /\ pc' = [pc EXCEPT ![c] = "error"]
          /\ ret' = [ret EXCEPT ![c] = "AccessError"]
     ELSE /\ pc' = [pc EXCEPT ![c] = "done"]
          /\ ret' = [ret EXCEPT ![c] = ReturnValue(c)]
  /\ resolved' = IF Waited(c) THEN Without(resolved, wait_id[c]) ELSE resolved
  /\ call_args' = [call_args EXCEPT ![c] = None]
  /\ UNCHANGED <<max_id, issued, op, msg_id, wait_id, sent, last, pending,
                 subs, recv, cb_log, threadVars>>

\* ------------------------------------------------------ specification
Init ==
  /\ max_id = 0
  /\ issued = <<>>
  /\ pc = [c \in Callers |-> "idle"]
  /\ op = [c \in Callers |-> None]
  /\ call_args = [c \in Callers |-> None]
  /\ msg_id = [c \in Callers |-> None]
  /\ wait_id = [c \in Callers |-> None]
  /\ ret = [c \in Callers |-> None]
  /\ sent = <<>>
  /\ last = [by |-> None]
  /\ pending = [i \in {} |-> None]
  /\ resolved = [i \in {} |-> None]
  /\ subs = [i \in {} |-> None]
  /\ recv = <<>>
  /\ cb_log = <<>>
  /\ tpc = [t \in Threads |-> "idle"]
  /\ treg = [t \in Threads |-> 0]
  /\ tcount = [t \in Threads |-> 0]

Next ==
  \/ \E c \in Callers : ConnectCall(c)
  \/ \E c \in Callers, a \in LoginArgs : LoginCall(c, a)
  \/ \E c \in Callers : GetChannelsCall(c)
  \/ \E c \in Callers, m \in Texts, ch \in Channels, kw \in KwargsSet, now \in Times :
       SendMessageCall(c, m, ch, kw, now)
  \/ \E c \in Callers, o \in OrigMsgIds, e \in Emojis : SendReactionCall(c, o, e)
  \/ \E c \in Callers, ch \in Channels, u \in Usernames, b \in BOOLEAN :
       SendTypingEventCall(c, ch, u, b)
  \/ \E c \in Callers, ch \in Channels : SubMessagesCall(c, ch, CallbackOf(c))
  \/ \E c \in Callers, u \in UserIds : SubChangesCall(c, u, CallbackOf(c))
  \/ \E c \in Callers, s \in HeldSubIds : UnsubscribeCall(c, s)
  \/ \E c \in Callers : Return(c)
  \/ \E id \in DOMAIN pending : \E r \in RepliesTo(pending[id]) : ReplyArrives(id, r)
  \/ \E id \in DOMAIN subs : \E e \in EventsOn(subs[id].kind) : PushArrives(id, e)

Spec == Init /\ [][Next]_vars

\* ------------------------------------- the nine operations, no pushes
\* Every call() of the catalog and the replies to them; the push events,
\* which neither allocate nor retire an id, are left to Spec and SpecSubs.
NextOps ==
  \/ \E c \in Callers : ConnectCall(c)
  \/ \E c \in Callers, a \in LoginArgs : LoginCall(c, a)
  \/ \E c \in Callers : GetChannelsCall(c)
  \/ \E c \in Callers, m \in Texts, ch \in Channels, kw \in KwargsSet, now \in Times :
       SendMessageCall(c, m, ch, kw, now)
  \/ \E c \in Callers, o \in OrigMsgIds, e \in Emojis : SendReactionCall(c, o, e)
  \/ \E c \in Callers, ch \in Channels, u \in Usernames, b \in BOOLEAN :
       SendTypingEventCall(c, ch, u, b)
  \/ \E c \in Callers, ch \in Channels : SubMessagesCall(c, ch, CallbackOf(c))
  \/ \E c \in Callers, u \in UserIds : SubChangesCall(c, u, CallbackOf(c))
  \/ \E c \in Callers, s \in HeldSubIds : UnsubscribeCall(c, s)
  \/ \E c \in Callers : Return(c)
  \/ \E id \in DOMAIN pending : \E r \in RepliesTo(pending[id]) : ReplyArrives(id, r)

SpecOps == Init /\ [][NextOps]_vars

\* ------------------------------------ the method calls among themselves
\* A session that issues method calls only: the handshake and the five
\* calls that carry a correlation id, with their replies.
NextCalls ==
  \/ \E c \in Callers : ConnectCall(c)
  \/ \E c \in Callers, a \in LoginArgs : LoginCall(c, a)
  \/ \E c \in Callers : GetChannelsCall(c)
  \/ \E c \in Callers, m \in Texts, ch \in Channels, kw \in KwargsSet, now \in Times :
       SendMessageCall(c, m, ch, kw, now)
  \/ \E c \in Callers, o \in OrigMsgIds, e \in Emojis : SendReactionCall(c, o, e)
  \/ \E c \in Callers, ch \in Channels, u \in Usernames, b \in BOOLEAN :
       SendTypingEventCall(c, ch, u, b)
  \/ \E c \in Callers : Return(c)
  \/ \E id \in DOMAIN pending : \E r \in RepliesTo(pending[id]) : ReplyArrives(id, r)

SpecCalls == Init /\ [][NextCalls]_vars

\* ----------------------------------------- the subscriptions' life cycle
\* A logged-in session that subscribes, receives push events and
\* unsubscribes, with GetChannels as the method call that may be outstanding
\* beside the subscriptions.
NextSubs ==
  \/ \E c \in Callers : GetChannelsCall(c)
  \/ \E c \in Callers, ch \in Channels : SubMessagesCall(c, ch, CallbackOf(c))
  \/ \E c \in Callers, u \in UserIds : SubChangesCall(c, u, CallbackOf(c))
  \/ \E c \in Callers, s \in HeldSubIds : UnsubscribeCall(c, s)
  \/ \E c \in Callers : Return(c)
  \/ \E id \in DOMAIN pending : \E r \in RepliesTo(pending[id]) : ReplyArrives(id, r)
  \/ \E id \in DOMAIN subs : \E e \in EventsOn(subs[id].kind) : PushArrives(id, e)

SpecSubs == Init /\ [][NextSubs]_vars

\* --------------------------------------- one caller, every argument
\* A caller taken alone that makes the calls that hand an id to the
\* Dispatcher, one after the other, with arguments and replies out of the
\* wider ranges.
Solo == "c1"

NextOne ==
  \/ \E a \in AnyLoginArgs : LoginCall(Solo, a)
  \/ GetChannelsCall(Solo)
  \/ \E m \in Texts, ch \in Channels, kw \in AnyKwargs, now \in AnyTimes :
       SendMessageCall(Solo, m, ch, kw, now)
  \/ \E ch \in Channels, u \in Usernames, b \in BOOLEAN :
       SendTypingEventCall(Solo, ch, u, b)
  \/ \E ch \in Channels : SubMessagesCall(Solo, ch, CallbackOf(Solo))
  \/ \E u \in UserIds : SubChangesCall(Solo, u, CallbackOf(Solo))
  \/ Return(Solo)
  \/ \E id \in DOMAIN pending : \E r \in AnyRepliesTo(pending[id]) :
       ReplyOfAnyShape(id, r)

SpecOne == Init /\ [][NextOne]_vars

\* ------------------------------------- push events on two subscriptions
\* The state once c1 has subscribed to a channel's messages and c2 to the
\* user's channel changes and both calls have returned.
Subscribed ==
  /\ max_id = 2
  /\ issued = <<"1", "2">>
  /\ pc = [c \in Callers |-> "done"]
  /\ op = [c1 |-> "SubscribeToChannelMessages", c2 |-> "SubscribeToChannelChanges"]
  /\ call_args = [c \in Callers |-> None]
  /\ msg_id = [c1 |-> "1", c2 |-> "2"]
  /\ wait_id = [c \in Callers |-> None]
  /\ ret = [c1 |-> SubMessagesReturn("1"), c2 |-> SubChangesReturn("2")]
  /\ sent = <<[prim |-> "create_subscription", tag |-> "sub", mid |-> "1", id |-> "1"],
              [prim |-> "create_subscription", tag |-> "sub", mid |-> "2", id |-> "2"]>>
  /\ last = [by |-> "c2", prim |-> "create_subscription",
             msg |-> SubChangesMsg("2", "u1"), id |-> "2"]
  /\ pending = [i \in {} |-> None]
  /\ resolved = [i \in {} |-> None]
  /\ subs = ("1" :> [kind |-> "messages", cb |-> CallbackOf("c1")]) @@
            ("2" :> [kind |-> "changes", cb |-> CallbackOf("c2")])
  /\ recv = <<>>
  /\ cb_log = <<>>
  /\ tpc = [t \in Threads |-> "idle"]
  /\ treg = [t \in Threads |-> 0]
  /\ tcount = [t \in Threads |-> 0]

\* From there the session only receives: push frames of any shape arrive on
\* either subscription, in any order.
NextPush ==
  \E id \in DOMAIN subs : \E e \in AnyEventsOn(subs[id].kind) : PushOfAnyShape(id, e)

SpecPush == Subscribed /\ [][NextPush]_vars

\* ------------------------------- the allocator alone, coroutine callers
\* A coroutine's msg_id = cls._get_new_id(): no await inside, one step.
AllocCall(c) ==
  /\ max_id < MaxAlloc
  /\ LET id == NewIdOf(max_id)
     IN /\ GetNewId(id)
        /\ msg_id' = [msg_id EXCEPT ![c] = id]
  /\ UNCHANGED <<pc, op, call_args, wait_id, ret, sent, last, pending, resolved, subs,
                 recv, cb_log, threadVars>>

NextAlloc == \E c \in Callers : AllocCall(c)

SpecAlloc == Init /\ [][NextAlloc]_vars

\* ------------------------------ the allocator under preemptive threads
\* _get_new_id is three accesses of the class attribute with no lock
\* around them: the read and the write of `_max_id += 1`, and the read of
\* the f-string.  A thread switch may fall between any two.
ThreadLoad(t) ==
  /\ tpc[t] = "idle"
  /\ tcount[t] < MaxPerThread
  /\ treg' = [treg EXCEPT ![t] = max_id]
  /\ tpc' = [tpc EXCEPT ![t] = "loaded"]
  /\ UNCHANGED <<max_id, issued, tcount, callVars>>

ThreadStore(t) ==
  /\ tpc[t] = "loaded"
  /\ max_id' = Incremented(treg[t])
  /\ tpc' = [tpc EXCEPT ![t] = "stored"]
  /\ UNCHANGED <<issued, treg, tcount, callVars>>

ThreadReturn(t) ==
  /\ tpc[t] = "stored"
  /\ issued' = Append(issued, IntToStr(max_id))
  /\ tpc' = [tpc EXCEPT ![t] = "idle"]
  /\ tcount' = [tcount EXCEPT ![t] = @ + 1]
  /\ UNCHANGED <<max_id, treg, callVars>>

NextThreads ==
  \/ \E t \in Threads : ThreadLoad(t)
  \/ \E t \in Threads : ThreadStore(t)
  \/ \E t \in Threads : ThreadReturn(t)

SpecThreads == Init /\ [][NextThreads]_vars

\* ============================================================ properties
Distinct(seq) == \A i, j \in 1..Len(seq) : i # j => seq[i] # seq[j]

\* C1: from a fresh process, the k-th allocation returns the decimal string
\* of k: N consecutive allocations return "1", "2", ..., the string of N,
\* pairwise distinct and strictly increasing as integers.
C1_AllocatorCountsFromOne ==
  /\ Len(issued) = max_id
  /\ \A k \in 1..Len(issued) : issued[k] = ToString(k)
  /\ Distinct(issued)

\* A run of eleven allocations, the tenth and eleventh with two digits.
C1_Witness ==
  /\ Len(issued) = 11
  /\ issued[1] = "1"
  /\ issued[10] = "10"
  /\ issued[11] = "11"

\* Indices of the invocations that passed an id to the Dispatcher.
HandedAt == {i \in 1..Len(sent) : sent[i].id # None}
\* Indices of the messages that carry a correlation id of their own
\* (an unsub carries the id of the subscription it cancels).
AllocatingAt == {i \in 1..Len(sent) : sent[i].tag \in {"method", "sub"}}
\* Callers suspended on a reply.
Awaiting == {c \in Callers : pc[c] = "called" /\ wait_id[c] # None}

\* C2: no two outstanding method calls or subscriptions carry the same
\* correlation id, and an id issued once is never issued again, whatever
\* became of the call or subscription it was issued to.
C2_IdsNeverShared ==
  /\ Distinct(issued)
  /\ \A i, j \in HandedAt : i # j => sent[i].id # sent[j].id
  /\ \A i, j \in AllocatingAt : i # j => sent[i].mid # sent[j].mid
  /\ \A c, d \in Awaiting : c # d => wait_id[c] # wait_id[d]
  /\ \A c \in Awaiting : wait_id[c] \notin DOMAIN subs
  /\ \A i \in DOMAIN pending : i \notin DOMAIN subs

\* An id is issued after a subscription was unsubscribed and after a call
\* completed, while another call is outstanding.
C2_Witness ==
  /\ \E i, j \in 1..Len(sent) :
       i < j /\ sent[i].tag = "unsub" /\ sent[j].id # None
  /\ \E c \in Callers : pc[c] = "done"
  /\ DOMAIN pending # {}

\* C3: with callers that may be preempted between any two accesses of the
\* counter, no two allocations return the same id, and once K allocations
\* have completed the counter is K and the values returned are 1..K.
C3_AllocatorSafeUnderThreads ==
  /\ Distinct(issued)
  /\ (\A t \in Threads : tpc[t] = "idle") =>
       /\ max_id = Len(issued)
       /\ {issued[k] : k \in 1..Len(issued)} =
            {IntToStr(k) : k \in 1..Len(issued)}

\* The step by which caller c's call() stops being suspended.
Completes(c) == pc[c] = "called" /\ pc'[c] # "called"
\* Caller c's message is the one most recently handed to the Dispatcher.
SentLast(c) == pc[c] \in {"called", "done", "error"} /\ last.by = c

\* C4: a Login, GetChannels or SendMessage call completes only once the
\* Dispatcher holds a resolved reply under the id this call allocated, and
\* Login and GetChannels return what they parse from that very reply.
C4_CompletesOnOwnReplyOnly ==
  [][\A c \in Callers :
       (Completes(c) /\ op[c] \in {"Login", "GetChannels", "SendMessage"}) =>
         /\ msg_id[c] # None
         /\ msg_id[c] \in DOMAIN resolved
         /\ (op[c] = "Login" /\ pc'[c] = "done") =>
              ret'[c] = resolved[msg_id[c]].result.id
         /\ (op[c] = "GetChannels" /\ pc'[c] = "done") =>
              LET rooms == resolved[msg_id[c]].result
              IN /\ Len(ret'[c]) = Len(rooms)
                 /\ \A i \in 1..Len(rooms) :
                      /\ ret'[c][i][1] = rooms[i]["_id"]
                      /\ ret'[c][i][2] = rooms[i].t
  ]_vars

\* Two Login calls in flight; the later one has returned the id of its own
\* reply while the earlier one's different reply is resolved and unreturned.
C4_Witness ==
  \E c, d \in Callers :
    /\ c # d
    /\ op[c] = "Login" /\ op[d] = "Login"
    /\ msg_id[d] = "1" /\ msg_id[c] = "2"
    /\ pc[c] = "done" /\ ret[c] = "uidB"
    /\ pc[d] = "called" /\ "1" \in DOMAIN resolved
    /\ resolved["1"] = [result |-> [id |-> "uidA"]]

\* C5 as stated: SendTypingEvent does not wait for a reply, so a suspended
\* SendTypingEvent call can always complete, whether or not a reply
\* bearing its id has arrived.
C5_TypingIsFireAndForget ==
  \A c \in Callers :
    (op[c] = "SendTypingEvent" /\ pc[c] = "called") =>
      /\ wait_id[c] = None
      /\ ENABLED Return(c)

\* C5 as the code has it: SendTypingEvent passes its correlation id to
\* call_method, so it stays suspended until a reply bearing that id is
\* resolved; it then returns no value.
C5_TypingAwaitsItsReply ==
  \A c \in Callers :
    op[c] = "SendTypingEvent" =>
      /\ msg_id[c] # None /\ wait_id[c] = msg_id[c]
      /\ SentLast(c) =>
           /\ last.id = msg_id[c] /\ last.msg.id = msg_id[c]
           /\ last.msg.method = "stream-notify-room"
      /\ pc[c] = "called" => (ENABLED Return(c) <=> msg_id[c] \in DOMAIN resolved)
      /\ pc[c] = "done" => ret[c] = None

\* A SendTypingEvent call is suspended with no reply to its id yet.
C5_Witness ==
  \E c \in Callers :
    /\ op[c] = "SendTypingEvent" /\ pc[c] = "called"
    /\ wait_id[c] \in DOMAIN pending

\* The number of messages sent so far whose id field is id.
SentWithId(id) == Cardinality({i \in AllocatingAt : sent[i].mid = id})

\* C6: SendReaction allocates a fresh id, sends one setReaction message with
\* that id and params [emoji, message id], passes no id to the Dispatcher,
\* and so can complete with no reply and leaves nothing pending.
C6_ReactionNeedsNoReply ==
  \A c \in Callers :
    (op[c] = "SendReaction" /\ pc[c] \in {"called", "done"}) =>
      /\ msg_id[c] \in {issued[k] : k \in 1..Len(issued)}
      /\ SentWithId(msg_id[c]) = 1
      /\ wait_id[c] = None
      /\ msg_id[c] \notin DOMAIN pending
      /\ msg_id[c] \notin DOMAIN resolved
      /\ pc[c] = "called" =>
           /\ ENABLED Return(c)
           /\ SentLast(c) =>
                /\ last.prim = "call_method" /\ last.id = None
                /\ last.msg = [msg |-> "method", method |-> "setReaction",
                               id |-> msg_id[c],
                               params |-> <<call_args[c][2], call_args[c][1]>>]
      /\ pc[c] = "done" => ret[c] = None

\* A SendReaction call has completed while nothing at all was received.
C6_Witness ==
  \E c \in Callers :
    /\ op[c] = "SendReaction" /\ pc[c] = "done"
    /\ DOMAIN resolved = {} /\ DOMAIN pending = {} /\ recv = <<>>

\* The number of messages sent so far with the given tag.
SentWithTag(tag) == Cardinality({i \in 1..Len(sent) : sent[i].tag = tag})

\* C7: Connect sends the fixed handshake message, which has no id field,
\* passes no id to the Dispatcher, and allocates nothing: the counter is the
\* number of messages sent other than connect and unsub messages.
C7_ConnectTakesNoId ==
  /\ max_id = Len(sent) - SentWithTag("connect") - SentWithTag("unsub")
  /\ \A i \in 1..Len(sent) :
       sent[i].tag = "connect" => (sent[i].mid = None /\ sent[i].id = None)
  /\ \A c \in Callers :
       (op[c] = "Connect" /\ pc[c] \in {"called", "done"}) =>
         /\ wait_id[c] = None /\ msg_id[c] = None
         /\ SentLast(c) =>
              /\ last.prim = "call_method" /\ last.id = None
              /\ DOMAIN last.msg = {"msg", "version", "support"}
              /\ last.msg.msg = "connect"
              /\ last.msg.version = "1"
              /\ last.msg.support = <<"1">>

\* Connect was called twice and the id allocated afterwards is "1".
C7_Witness ==
  /\ Len(sent) = 3
  /\ sent[1].tag = "connect" /\ sent[2].tag = "connect"
  /\ sent[3].mid = "1"
  /\ max_id = 1

\* C8: Unsubscribe with subscription id s sends exactly {msg: unsub, id: s},
\* allocates no id and passes none to the Dispatcher.
C8_UnsubscribeSendsIdOnly ==
  /\ max_id = Cardinality(AllocatingAt)
  /\ \A i \in 1..Len(sent) : sent[i].tag = "unsub" => sent[i].id = None
  /\ \A c \in Callers :
       (op[c] = "Unsubscribe" /\ pc[c] \in {"called", "done"}) =>
         /\ wait_id[c] = None /\ msg_id[c] = None
         /\ (pc[c] = "called" /\ SentLast(c)) =>
              /\ last.prim = "call_method" /\ last.id = None
              /\ DOMAIN last.msg = {"msg", "id"}
              /\ last.msg.msg = "unsub"
              /\ last.msg.id = call_args[c][1]

\* An Unsubscribe for subscription "2" was sent after two subscriptions and
\* the counter still reads 2.
C8_Witness ==
  \E c \in Callers :
    /\ op[c] = "Unsubscribe" /\ pc[c] = "called" /\ last.by = c
    /\ call_args[c] = <<"2">>
    /\ max_id = 2 /\ Len(sent) = 3

\* Indices of the subscriptions created under id.
CreatedAt(id) ==
  {i \in 1..Len(sent) : sent[i].prim = "create_subscription" /\ sent[i].id = id}

\* C9: a subscribing call returns the id that is in its sub message and
\* under which its adapter is registered; an Unsubscribe called with a
\* returned id carries the id of exactly that subscription, which no other
\* subscription and no call shares.
C9_ReturnedIdIsSubscriptionId ==
  \A c \in Callers :
    /\ (op[c] \in SubOps /\ pc[c] \in {"called", "done"}) =>
         /\ msg_id[c] # None
         /\ Cardinality(CreatedAt(msg_id[c])) = 1
         /\ \A i \in CreatedAt(msg_id[c]) : sent[i].mid = msg_id[c]
         /\ pc[c] = "done" => ret[c] = msg_id[c]
         /\ SentLast(c) =>
              /\ last.prim = "create_subscription"
              /\ last.msg.msg = "sub"
              /\ last.msg.id = msg_id[c] /\ last.id = msg_id[c]
              /\ msg_id[c] \in DOMAIN subs
              /\ subs[msg_id[c]].cb = CallbackOf(c)
    /\ (op[c] = "Unsubscribe" /\ pc[c] = "called" /\ last.by = c) =>
         LET s == last.msg.id
         IN /\ s = call_args[c][1]
            /\ Cardinality(CreatedAt(s)) = 1
            /\ \A i \in HandedAt : sent[i].id = s => i \in CreatedAt(s)
            /\ \A i \in AllocatingAt : sent[i].mid = s => i \in CreatedAt(s)
            /\ s \notin DOMAIN pending
            /\ s \notin DOMAIN subs

\* Subscription "1" is cancelled with the id its call returned while
\* subscription "2" stays registered.
C9_Witness ==
  \E c \in Callers :
    /\ op[c] = "Unsubscribe" /\ pc[c] = "called" /\ last.by = c
    /\ last.msg.id = "1"
    /\ DOMAIN subs = {"2"}

\* The number of received push events on which an adapter invoked a callback.
Delivered == Cardinality({i \in 1..Len(recv) : recv[i].outcome = "called"})

\* C10: a subscribing call waits for no event: it passes through the
\* Dispatcher's create_subscription and returns its id; every callback
\* invocation is made by the receive path for a received push event.
C10_SubscribeWaitsForNoEvent ==
  /\ Len(cb_log) = Delivered
  /\ \A c \in Callers :
       (op[c] \in SubOps /\ pc[c] \in {"called", "done"}) =>
         /\ wait_id[c] = None
         /\ msg_id[c] \notin DOMAIN pending
         /\ pc[c] = "called" => ENABLED Return(c)
         /\ pc[c] = "done" => ret[c] = msg_id[c]

\* A subscribing call has returned its id and no push event has arrived.
C10_Witness ==
  \E c \in Callers :
    /\ op[c] = "SubscribeToChannelChanges" /\ pc[c] = "done"
    /\ ret[c] = "1"
    /\ recv = <<>> /\ cb_log = <<>>


\* ---------------------------------------------------------- push events
\* The kind of the subscription the i-th received frame arrived on.
KindAt(i) == subs[recv[i].id].kind
\* A frame has an argument list with a first element.
HasArgs(e) == Has(e, "fields") /\ Has(e.fields, "args") /\ Len(e.fields.args) >= 1
\* A change frame that announces a removal.
IsRemoval(e) == HasArgs(e) /\ e.fields.args[1] = "removed"
\* A change frame of another kind whose second argument has _id and t.
IsChange(e) ==
  /\ HasArgs(e) /\ e.fields.args[1] # "removed" /\ Len(e.fields.args) >= 2
  /\ {"_id", "t"} \subseteq DOMAIN e.fields.args[2]
ChangesReceived ==
  SelectSeq(recv, LAMBDA r : subs[r.id].kind = "changes" /\ IsChange(r.event))
CallsOf(cb) == SelectSeq(cb_log, LAMBDA k : k.cb = cb)

\* C11: on the channel-changes subscription a frame whose first argument is
\* "removed" is swallowed without its second argument being looked at; every
\* other frame (its second argument carrying _id and t) invokes the callback
\* exactly once with (_id, t); so over any sequence of frames the callback's
\* invocations are those of the frames that are not removals, in their order.
C11_ChangesAdapterSwallowsRemovals ==
  LET calls == CallsOf(CallbackOf("c2"))
  IN /\ \A i \in 1..Len(recv) :
          (KindAt(i) = "changes" /\ IsRemoval(recv[i].event)) =>
            recv[i].outcome = "swallowed"
     /\ Len(calls) = Len(ChangesReceived)
     /\ \A i \in 1..Len(calls) :
          LET channel == ChangesReceived[i].event.fields.args[2]
          IN calls[i].args = <<channel["_id"], channel.t>>

\* An insertion, a removal with no second argument and an update arrived in
\* this order: two invocations, for the insertion and then the update.
C11_Witness ==
  /\ Len(recv) = 3
  /\ \A i \in 1..3 : recv[i].id = "2"
  /\ IsChange(recv[1].event) /\ recv[1].event.fields.args[1] = "inserted"
  /\ IsRemoval(recv[2].event) /\ Len(recv[2].event.fields.args) = 1
  /\ IsChange(recv[3].event) /\ recv[3].event.fields.args[1] = "updated"
  /\ cb_log = <<[cb |-> CallbackOf("c2"), args |-> <<"x", "p">>],
                [cb |-> CallbackOf("c2"), args |-> <<"y", "c">>]>>

\* A message frame whose first argument has _id, rid and u._id.
IsMessage(e) ==
  /\ HasArgs(e)
  /\ {"_id", "rid", "u"} \subseteq DOMAIN e.fields.args[1]
  /\ "_id" \in DOMAIN e.fields.args[1].u
MessagesReceived ==
  SelectSeq(recv, LAMBDA r : subs[r.id].kind = "messages" /\ IsMessage(r.event))

\* C12: on the channel-messages subscription every frame whose first
\* argument is a message (with _id, rid and u._id) invokes the callback
\* exactly once, with (message.rid, message.u._id, message._id, message):
\* channel, sender, message id and the whole message, in this order.
C12_MessagesAdapterPassesFour ==
  LET calls == CallsOf(CallbackOf("c1"))
  IN /\ \A i \in 1..Len(recv) :
          (KindAt(i) = "messages" /\ IsMessage(recv[i].event)) =>
            recv[i].outcome = "called"
     /\ Len(calls) = Len(MessagesReceived)
     /\ \A i \in 1..Len(calls) :
          LET message == MessagesReceived[i].event.fields.args[1]
          IN /\ Len(calls[i].args) = 4
             /\ calls[i].args[1] = message.rid
             /\ calls[i].args[2] = message.u["_id"]
             /\ calls[i].args[3] = message["_id"]
             /\ calls[i].args[4] = message

\* Two messages of different channels and senders arrived, the second
\* twice: three invocations, each with its own message's four values.
C12_Witness ==
  /\ Len(recv) = 3
  /\ \A i \in 1..3 : recv[i].id = "1" /\ recv[i].outcome = "called"
  /\ cb_log = <<[cb |-> CallbackOf("c1"), args |-> <<"r1", "u1", "m1", GoodMessage>>],
                [cb |-> CallbackOf("c1"), args |-> <<"r2", "u2", "m3", OtherMessage>>],
                [cb |-> CallbackOf("c1"), args |-> <<"r2", "u2", "m3", OtherMessage>>]>>

\* --------------------------------------------------------- failed login
\* A reply from which Login._parse cannot take result.id.
LacksLoginId(r) == ~("result" \in DOMAIN r) \/ ~("id" \in DOMAIN r.result)
TimesIssued(id) == Cardinality({k \in 1..Len(issued) : issued[k] = id})

\* C13: when the reply to a Login call lacks result or result.id the call
\* ends in an error that reaches the caller, with no value returned; that
\* step sends nothing and allocates nothing, one login message was handed
\* to the Dispatcher for the call, and its id is never issued again.
C13_FailedLoginIsNotRetried ==
  /\ [][\A c \in Callers :
          (Completes(c) /\ op[c] = "Login" /\ LacksLoginId(resolved[wait_id[c]])) =>
            /\ pc'[c] = "error" /\ ret'[c] = "AccessError"
            /\ sent' = sent /\ issued' = issued /\ max_id' = max_id
            /\ pending' = pending]_vars
  /\ [](\A c \in Callers :
          (op[c] = "Login" /\ pc[c] = "error") =>
            /\ ret[c] = "AccessError"
            /\ SentWithId(msg_id[c]) = 1
            /\ TimesIssued(msg_id[c]) = 1
            /\ msg_id[c] \notin DOMAIN pending)

\* Three Login calls were made with three ids and both callers' latest
\* Login has failed on its reply.
C13_Witness ==
  /\ \A c \in Callers : op[c] = "Login" /\ pc[c] = "error"
  /\ Len(sent) = 3
  /\ max_id = 3

\* A frame lacks a field that the adapter of a subscription of this kind
\* reads from it.
LacksField(kind, e) ==
  IF ~HasArgs(e) THEN TRUE
  ELSE IF kind = "messages" THEN ~IsMessage(e)
  ELSE ~IsRemoval(e) /\ ~IsChange(e)
\* Indices of the received frames that lack a field.
LackingAt == {i \in 1..Len(recv) : LacksField(KindAt(i), recv[i].event)}

\* C14: a push frame that lacks a field its adapter reads (for a message:
\* fields, fields.args[0], its _id, rid, u or u._id; for a change that is
\* not a removal: fields.args[1], its _id or t) ends the adapter in an
\* access error, and the callback is not invoked for it at all.
C14_LackingFieldRaisesBeforeCallback ==
  [][(Len(recv') = Len(recv) + 1 /\ Len(recv') \in LackingAt') =>
       /\ recv'[Len(recv')].outcome = "error"
       /\ cb_log' = cb_log]_vars

\* A message without a sender, then a well-formed message, then a change
\* without a type arrived: the only invocation is the one for the second.
C14_Witness ==
  /\ Len(recv) = 3
  /\ LackingAt = {1, 3}
  /\ recv[1].id = "1" /\ HasArgs(recv[1].event)
  /\ ~("u" \in DOMAIN recv[1].event.fields.args[1])
  /\ recv[3].id = "2" /\ HasArgs(recv[3].event)
  /\ Len(recv[3].event.fields.args) = 2
  /\ ~("t" \in DOMAIN recv[3].event.fields.args[2])
  /\ recv[1].outcome = "error" /\ recv[3].outcome = "error"
  /\ Len(cb_log) = 1

\* ------------------------------------------------ a caller taken alone
\* C15: GetChannels returns a list as long as the reply's result, whose
\* i-th element is the (_id, t) of the result's i-th room: no room is
\* dropped, repeated or moved, and the empty result gives the empty list.
C15_ChannelsKeepOrderAndLength ==
  [][(Completes(Solo) /\ op[Solo] = "GetChannels"
        /\ "result" \in DOMAIN resolved[wait_id[Solo]]) =>
       LET rooms == resolved[wait_id[Solo]].result
           out == ret'[Solo]
       IN /\ pc'[Solo] = "done"
          /\ Len(out) = Len(rooms)
          /\ rooms = <<>> => out = <<>>
          /\ \A i \in 1..Len(rooms) :
               /\ Len(out[i]) = 2
               /\ out[i][1] = rooms[i]["_id"]
               /\ out[i][2] = rooms[i].t]_vars

\* GetChannels has returned the pairs of a three-room result that names one
\* room twice, in the result's order.
C15_Witness ==
  /\ op[Solo] = "GetChannels" /\ pc[Solo] = "done"
  /\ ret[Solo] = <<<<"b", "p">>, <<"c", "d">>, <<"b", "p">>>>

\* The caller's SendMessage is the call whose message was handed over last.
SendMessageBuilt ==
  op[Solo] = "SendMessage" /\ pc[Solo] = "called" /\ last.by = Solo

\* C16: in the one parameter object SendMessage builds, every extra field
\* holds the caller's value, also when it is named _id, rid or msg; a base
\* field that no extra field names keeps its base value (the generated id,
\* the channel id, the text); and the object has no other field.
C16_ExtraFieldsWin ==
  SendMessageBuilt =>
    LET msg_text == call_args[Solo][1]
        channel_id == call_args[Solo][2]
        kwargs == call_args[Solo][3]
        now == call_args[Solo][4]
        param == last.msg.params[1]
    IN /\ Len(last.msg.params) = 1
       /\ DOMAIN param = {"_id", "rid", "msg"} \cup DOMAIN kwargs
       /\ \A k \in DOMAIN kwargs : param[k] = kwargs[k]
       /\ "_id" \notin DOMAIN kwargs =>
            param["_id"] = SubSeq(Md5Hex(msg_id[Solo] \o ":" \o now), 1, 12)
       /\ "rid" \notin DOMAIN kwargs => param.rid = channel_id
       /\ "msg" \notin DOMAIN kwargs => param.msg = msg_text

\* A message was built with extra fields _id, rid, msg and tmid: all four
\* hold the caller's values.
C16_Witness ==
  /\ SendMessageBuilt
  /\ last.msg.params = <<("_id" :> Mine) @@ [rid |-> "r9", msg |-> "bye", tmid |-> "t1"]>>
  /\ call_args[Solo][1] = "hi" /\ call_args[Solo][2] = "r1"

\* The caller's Login is the call whose message was handed over last.
LoginBuilt == op[Solo] = "Login" /\ pc[Solo] = "called" /\ last.by = Solo
\* hashlib.sha256(p.encode()).hexdigest() of the passwords in use.
Sha256Of(p) ==
  IF p = "pw1"
  THEN "c592df4a86933b92addc9842402ddf198c638ea9be58916ee6e3734e1e3152f8"
  ELSE "93915a0a4bf8f634cb1856494dd4304472ad46b9827f541f76b6761c49cc55b0"
\* The values of the fields of a username/password login message.
LoginFields(m) ==
  {m.msg, m.method, m.id, m.params[1].user.username,
   m.params[1].password.digest, m.params[1].password.algorithm}

\* C17 as stated: for every (username, password) the login message has
\* password.digest = SHA-256(password) in hexadecimal with algorithm
\* "sha-256" and no field of the message equals the plaintext password; the
\* single-argument form has params exactly [{resume: token}].
C17_NoFieldEqualsPassword ==
  LoginBuilt =>
    LET a == call_args[Solo]
    IN IF Len(a) = 1
       THEN last.msg.params = <<[resume |-> a[1]]>>
       ELSE /\ last.msg.params[1].password.digest = Sha256Of(a[2])
            /\ last.msg.params[1].password.algorithm = "sha-256"
            /\ a[2] \notin LoginFields(last.msg)

\* C17, amended: the password enters the login message only through
\* password.digest, the hexadecimal SHA-256 of the password, beside
\* algorithm "sha-256"; the message has no further field, and every other
\* field is fixed or is the id or the username the caller gave, whatever the
\* password is (a user named like the password is sent under that name); the
\* single-argument form has params exactly [{resume: token}].
C17_PasswordOnlyAsDigest ==
  LoginBuilt =>
    LET a == call_args[Solo]
    IN IF Len(a) = 1
       THEN last.msg = [msg |-> "method", method |-> "login", id |-> msg_id[Solo],
                        params |-> <<[resume |-> a[1]]>>]
       ELSE /\ last.msg =
                 [msg |-> "method", method |-> "login", id |-> msg_id[Solo],
                  params |-> <<[user |-> [username |-> a[1]],
                                password |-> [digest |-> Sha256Of(a[2]),
                                              algorithm |-> "sha-256"]]>>]
            /\ \A p \in {"pw1", "pw2"} :
                 [LoginMsg(msg_id[Solo], <<a[1], p>>) EXCEPT
                    !.params[1].password.digest = "elided"] =
                 [last.msg EXCEPT !.params[1].password.digest = "elided"]

\* A login message was built for a user whose name is also the password.
C17_Witness ==
  /\ LoginBuilt
  /\ call_args[Solo] = <<"pw1", "pw1">>
  /\ last.msg.params[1].user.username = "pw1"
  /\ last.msg.params[1].password.digest =
       "c592df4a86933b92addc9842402ddf198c638ea9be58916ee6e3734e1e3152f8"

\* The caller's SendMessage was built with no extra field named _id, so the
\* parameter object holds the generated id.
GeneratedIdBuilt == SendMessageBuilt /\ "_id" \notin DOMAIN call_args[Solo][3]
GeneratedId == last.msg.params[1]["_id"]
IsHex12(id) == Len(id) = 12 /\ \A i \in 1..12 : id[i] \in HexDigits

\* C18 as stated: the generated _id is exactly 12 hexadecimal characters, is
\* the same for the same (correlation id, timestamp), and differs for the
\* same correlation id at distinct timestamps.
C18_IdDiffersAcrossTimestamps ==
  GeneratedIdBuilt =>
    LET now == call_args[Solo][4]
    IN /\ IsHex12(GeneratedId)
       /\ \A t \in AnyTimes :
            (t = now) <=> (Md5Hex12(IdSeed(msg_id[Solo], t)) = GeneratedId)

\* C18, amended: the generated _id is exactly 12 hexadecimal characters,
\* the first 12 of the 32 of the MD5 digest of "<correlation id>:<timestamp>",
\* and so the same for the same pair; at distinct timestamps it may differ
\* or, the prefix being 48 bits of the digest, coincide.
C18_IdIsDigestPrefix ==
  GeneratedIdBuilt =>
    LET digest == Md5Hex(msg_id[Solo] \o ":" \o call_args[Solo][4])
    IN /\ Len(digest) = 32
       /\ IsHex12(GeneratedId)
       /\ \A i \in 1..12 : GeneratedId[i] = digest[i]

\* The message with correlation id "1" was built at 1700000001.050049 and
\* its _id is the one the same id gives at 1700000004.1990628, although the
\* two digests differ.
C18_Witness ==
  /\ GeneratedIdBuilt
  /\ msg_id[Solo] = "1"
  /\ call_args[Solo][4] = "1700000001.050049"
  /\ GeneratedId = <<"6", "e", "2", "6", "3", "7", "c", "0", "b", "3", "c", "d">>
  /\ GeneratedId = SubSeq(Md5Hex("1:1700000004.1990628"), 1, 12)
  /\ Md5Hex("1:1700000001.050049") # Md5Hex("1:1700000004.1990628")

\* ------------------------------------------------- order of hand-over
\* The messages of the id-allocating calls, in the order they were handed
\* to the Dispatcher.
AllocatingSent == SelectSeq(sent, LAMBDA m : m.tag \in {"method", "sub"})

\* C19: with coroutine callers every id-allocating call allocates its id
\* and hands its message to the Dispatcher in one step, so at all times
\* each id issued so far is in exactly one such message, and the k-th of
\* these messages to reach the Dispatcher carries the k-th id: they arrive
\* in strictly increasing id order, whatever the interleaving of the calls.
C19_HandedOverInIdOrder ==
  /\ Len(AllocatingSent) = Len(issued)
  /\ \A k \in 1..Len(AllocatingSent) :
       /\ AllocatingSent[k].mid = issued[k]
       /\ AllocatingSent[k].mid = ToString(k)
  /\ \A k \in 1..Len(issued) : SentWithId(issued[k]) = 1
  /\ \A c \in Callers :
       (pc[c] = "called" /\ msg_id[c] # None) => SentWithId(msg_id[c]) = 1

\* Three calls were made by two callers; a Login and a SendMessage made
\* after it await their replies at the same time.
C19_Witness ==
  /\ Len(issued) = 3
  /\ \A c \in Callers : pc[c] = "called" /\ wait_id[c] # None
  /\ op["c1"] = "SendMessage" /\ op["c2"] = "Login"
  /\ msg_id["c2"] = "2" /\ msg_id["c1"] = "3"

\* ------------------------------------------------ the envelope's id
\* The caller's latest call handed an id to the Dispatcher.
HandedAnId ==
  /\ last.by = Solo
  /\ op[Solo] \in {"Login", "GetChannels", "SendMessage", "SendTypingEvent",
                   "SubscribeToChannelMessages", "SubscribeToChannelChanges"}
\* The message tag each of these operations sends, and what it sends
\* under the key that names the remote method or stream.
TagOf(name) == IF name \in SubOps THEN "sub" ELSE "method"
NamedOf(name) ==
  CASE name = "Login" -> "login"
    [] name = "GetChannels" -> "rooms/get"
    [] name = "SendMessage" -> "sendMessage"
    [] name = "SendTypingEvent" -> "stream-notify-room"
    [] name = "SubscribeToChannelMessages" -> "stream-room-messages"
    [] name = "SubscribeToChannelChanges" -> "stream-notify-user"

\* C20: whenever Login, GetChannels, SendMessage or SendTypingEvent hands
\* an id to call_method, or a subscribing call to create_subscription, the
\* id is the one the call allocated and the message's id field equals it,
\* whatever the caller's arguments; the envelope has the operation's tag
\* and method (or stream) name and no key besides these, id and params, so
\* SendMessage's extra fields, also ones named id, msg or method, are in
\* the parameter object only.
C20_EnvelopeIdIsHandedId ==
  HandedAnId =>
    /\ last.id = msg_id[Solo]
    /\ last.msg.id = last.id
    /\ last.prim = (IF op[Solo] \in SubOps THEN "create_subscription"
                    ELSE "call_method")
    /\ last.msg.msg = TagOf(op[Solo])
    /\ IF op[Solo] \in SubOps
       THEN /\ DOMAIN last.msg = {"msg", "id", "name", "params"}
            /\ last.msg.name = NamedOf(op[Solo])
       ELSE /\ DOMAIN last.msg = {"msg", "method", "id", "params"}
            /\ last.msg.method = NamedOf(op[Solo])
    /\ (op[Solo] = "SendMessage" /\ pc[Solo] = "called") =>
         \A k \in DOMAIN call_args[Solo][3] :
           last.msg.params[1][k] = call_args[Solo][3][k]

\* A SendMessage with extra fields named id, msg and method was handed
\* over as the second call: the envelope has id "2", tag method and method
\* sendMessage, and the three extra fields are in the parameter object.
C20_Witness ==
  /\ HandedAnId
  /\ op[Solo] = "SendMessage" /\ pc[Solo] = "called"
  /\ call_args[Solo][3] = [id |-> "99", msg |-> "connect", method |-> "login"]
  /\ last.id = "2" /\ last.msg.id = "2"
  /\ last.msg.msg = "method" /\ last.msg.method = "sendMessage"
  /\ last.msg.params[1].id = "99" /\ last.msg.params[1].method = "login"
====
